---- MODULE Spec2Model ----
(***************************************************************************)
(* A model of cmd/redminesync/main.go: the sync driver (main), the         *)
(* attachment downloader (downloadAttachment, downloadFile), the local     *)
(* filesystem they write to and the remote tracker they read from.         *)
(*                                                                         *)
(* Strings that the code takes apart (URL paths, file paths) are sequences *)
(* of tokens: a name, or the separator "/".  A cleaned file path is the    *)
(* sequence of its names.  A response body is a sequence of chunks.        *)
(***************************************************************************)
EXTENDS Integers, Sequences, FiniteSets, TLC

(* ------------------------------ bounds -------------------------------- *)

\* Issue identifiers the remote tracker knows about are 1..MaxIssue.
MaxIssue == 2
\* The number of chunks of an attachment body.
BodyLen == 2
\* The number of invocations of the program, one after the other.
MaxRuns == 2

(* ------------------------- program constants -------------------------- *)

StatusOK == 200
StatusForbidden == 403
StatusNotFound == 404
StatusBadRequest == 400

\* The route prefix that downloadAttachment strips from the URL path.
Prefix == <<"attachments", "/", "download">>

\* *syncDir, the -d flag.
SyncDir == <<"/", "sync">>

(* --------------------------- the remote side -------------------------- *)

\* A content URL as url.Parse sees it: whether it parses, and its Path.
UrlReport == [ok |-> TRUE, path |-> <<"/", "attachments", "/", "download", "/", "55", "/", "report.pdf">>]
UrlBare == [ok |-> TRUE, path |-> <<"/", "attachments", "/", "download", "/", "55">>]
UrlNoPrefix == [ok |-> TRUE, path |-> <<"/", "attachments", "/", "55", "/", "report.pdf">>]
UrlInvalid == [ok |-> FALSE, path |-> <<>>]
NoLink == [ok |-> FALSE, path |-> <<"-">>]

Links == {UrlReport, UrlBare, UrlNoPrefix, UrlInvalid}

\* The bytes the remote serves for a content URL with status 200.
Body(link) == [c \in 1..BodyLen |-> <<link.path, c>>]

\* The attachment lists an issue may carry: none, one, the same link twice,
\* a file and a path below it in either order, and the links the
\* downloader refuses, first or after a good one.
AttachmentLists ==
  { <<>>, <<UrlReport>>, <<UrlReport, UrlReport>>, <<UrlBare, UrlReport>>,
    <<UrlReport, UrlBare>>, <<UrlNoPrefix>>, <<UrlReport, UrlNoPrefix>>, <<UrlInvalid>> }

\* What GET {baseURL}/issues/{id}.json?include=attachments answers: a
\* status and, with status 200, a body that is garbage or the JSON of an
\* issue with its attachments.  The body of an issue stays open (read
\* FALSE) until the program first reads it; it is the same ever after.
IssueStatuses == {StatusForbidden, StatusNotFound, StatusBadRequest, StatusOK}

\* A status other than 200 comes with an error document, which decodes to
\* an issue without attachments.
Unread(s) == [status |-> s, read |-> s # StatusOK, json |-> s # StatusOK, attachments |-> <<>>]

IssueBodies ==
  {[status |-> StatusOK, read |-> TRUE, json |-> FALSE, attachments |-> <<>>]}
  \cup {[status |-> StatusOK, read |-> TRUE, json |-> TRUE, attachments |-> a] :
          a \in AttachmentLists}

\* The answers the tracker may give for an issue whose answer so far is a.
Answers(a) == IF a.read THEN {a} ELSE IssueBodies

(* ------------------------------- strings ------------------------------ *)

\* strings.Index: the first place where old occurs in s, 0 when nowhere.
Index(s, old) ==
  LET at == {j \in 1..(Len(s) - Len(old) + 1) : SubSeq(s, j, j + Len(old) - 1) = old}
  IN IF at = {} THEN 0 ELSE CHOOSE j \in at : \A m \in at : j <= m

\* strings.Replace(s, old, new, 1)
Replace1(s, old, new) ==
  LET j == Index(s, old)
  IN IF j = 0 THEN s
     ELSE SubSeq(s, 1, j - 1) \o new \o SubSeq(s, j + Len(old), Len(s))

\* fmt.Sprintf("%d", issue)
Sprintf(issue) == <<ToString(issue)>>

RECURSIVE Clean(_, _)
\* filepath.Clean of a rooted path: the names left once separators, "."
\* and ".." are resolved.
Clean(tokens, acc) ==
  IF tokens = <<>> THEN acc
  ELSE LET t == Head(tokens)
       IN IF t = "/" \/ t = "." THEN Clean(Tail(tokens), acc)
          ELSE IF t = ".."
            THEN Clean(Tail(tokens), IF acc = <<>> THEN acc ELSE SubSeq(acc, 1, Len(acc) - 1))
            ELSE Clean(Tail(tokens), Append(acc, t))

\* filepath.Join(a, b, c): the non-empty elements joined by a separator, cleaned.
Join(a, b, c) ==
  LET sep(x, y) == IF y = <<>> THEN x ELSE IF x = <<>> THEN y ELSE x \o <<"/">> \o y
  IN Clean(sep(sep(a, b), c), <<>>)

\* filepath.Dir of a cleaned rooted path.
Dir(p) == IF p = <<>> THEN p ELSE SubSeq(p, 1, Len(p) - 1)

(* ----------------------------- filesystem ----------------------------- *)

DirEntry == [kind |-> "dir", data |-> <<>>]
FileEntry(data) == [kind |-> "file", data |-> data]

Prefixes(p) == {SubSeq(p, 1, n) : n \in 1..Len(p)}

\* os.Stat: "ok", or the errno.  The root "/" always exists.
Stat(f, p) ==
  IF p = <<>> \/ p \in DOMAIN f THEN "ok"
  ELSE IF \E q \in Prefixes(p) : q \in DOMAIN f /\ f[q].kind = "file" THEN "ENOTDIR"
  ELSE "ENOENT"

\* os.IsNotExist(err) for the error of a Stat.
IsNotExist(st) == st = "ENOENT"

\* os.MkdirAll(p, 0755) when it succeeds.
MkdirAll(f, p) ==
  [q \in DOMAIN f \cup Prefixes(p) |-> IF q \in DOMAIN f THEN f[q] ELSE DirEntry]

\* os.Rename(temporary file, p) when it succeeds.
Rename(f, data, p) ==
  [q \in DOMAIN f \cup {p} |-> IF q = p THEN FileEntry(data) ELSE f[q]]

EmptyFs == [q \in {} |-> DirEntry]

(* -------------------------------- state ------------------------------- *)

VARIABLES
  pc,                \* where the process is: "main", "loop", "attach", "do",
                     \* "copy", "close", "rename", "done" (exit 0), "failed" (exit 1)
  run,               \* the number of this invocation
  startIssueNumber,  \* the -f flag
  endFlag,           \* the -t flag as given
  endIssueNumber,    \* *endIssueNumber once resolved
  i,                 \* the loop variable of main
  attachments,       \* issue.Issue.Attachments of the decoded response
  k,                 \* the position of the range loop in attachments
  remote,            \* the tracker: issue id -> answer
  fs,                \* the filesystem: cleaned path -> entry
  tmpfiles,          \* the temporary files, by creation; the process writes the last
  resp,              \* the body of the open content response
  dst,               \* the destination of the current downloader call
  openBodies,        \* issue response bodies not yet closed
  resolverCalls,     \* calls of FindMaxIssue in this run
  events,            \* this run's issue fetches and downloader calls, in order
  gets,              \* destinations of this run's content GETs, in order
  io,                \* what the last step received from the outside
  ret,               \* how the last downloader call returned
  prev               \* how the previous run ended, and the filesystem it left

vars == <<pc, run, startIssueNumber, endFlag, endIssueNumber, i, attachments, k, remote,
          fs, tmpfiles, resp, dst, openBodies, resolverCalls, events, gets, io, ret, prev>>

flags == <<startIssueNumber, endFlag, run, prev>>

Event(t, issue, pos, link) == [t |-> t, issue |-> issue, pos |-> pos, link |-> link]
Io(op, res, status) == [op |-> op, res |-> res, status |-> status]

Max(a, b) == IF a >= b THEN a ELSE b

\* The highest id for which the tracker answers with an issue, 0 when none.
HighestValid(r) ==
  LET valid == {j \in DOMAIN r : r[j].status = StatusOK}
  IN IF valid = {} THEN 0 ELSE CHOOSE j \in valid : \A m \in valid : m <= j

\* redminesync.FindMaxIssue: an error, or a positive bound not below the
\* highest existing issue.
FindMaxIssue(r) ==
  {[err |-> TRUE, max |-> 0]}
  \cup {[err |-> FALSE, max |-> b] : b \in Max(1, HighestValid(r))..MaxIssue}

Init ==
  /\ pc = "main"
  /\ run = 1
  /\ startIssueNumber \in 1..MaxIssue
  /\ endFlag \in 0..MaxIssue
  /\ endIssueNumber = endFlag
  /\ i = 0
  /\ attachments = <<>>
  /\ k = 1
  /\ remote \in [1..MaxIssue -> {Unread(s) : s \in IssueStatuses}]
  /\ fs = EmptyFs
  /\ tmpfiles = <<>>
  /\ resp = <<>>
  /\ dst = <<>>
  /\ openBodies = 0
  /\ resolverCalls = 0
  /\ events = <<>>
  /\ gets = <<>>
  /\ io = Io("none", "none", 0)
  /\ ret = "none"
  /\ prev = [pc |-> "none", fs |-> EmptyFs]

(* ------------------------- decisions of the code ----------------------- *)

\* if *endIssueNumber == 0
Unspecified(flag) == flag = 0

\* The loop stopping one short of the end.
LoopCondStrict(n, end) == n < end

\* for ...; i <= *endIssueNumber; ...
LoopCond(n, end) == n <= end

\* The loop stepping over every other identifier.
NextIssueSkipping(n) == n + 2

\* i++
NextIssue(n) == n + 1

\* Only 404 taken for "not visible".
SkipStatusNotFoundOnly(s) == s = StatusNotFound

\* if resp.StatusCode == 404 || resp.StatusCode == 403 { continue }
SkipStatus(s) == s = StatusNotFound \/ s = StatusForbidden

\* The comparison off by one: status 400 passes.
FatalStatusAbove(s) == s > StatusBadRequest

\* if resp.StatusCode >= 400 { log.Fatalf }
FatalStatus(s) == s >= StatusBadRequest

\* The check of the route prefix left out.
UnexpectedNever(upath, path) == FALSE

\* if len(u.Path)-len(path) != len("attachments/download") { return error }
Unexpected(upath, path) == Len(upath) - Len(path) # Len(Prefix)

\* The existence check left out: every call downloads.
AlreadyDownloadedNever(st) == FALSE

\* the else branch of: if _, err := os.Stat(filepath); os.IsNotExist(err)
AlreadyDownloaded(st) == ~IsNotExist(st)

\* if resp.StatusCode != http.StatusOK { return error }
BadStatus(s) == s # StatusOK

\* A copy that returns after the first chunk.
AtEOFShort(written, body) == Len(written) >= 1

\* io.Copy returns when the body is at its end.
AtEOF(written, body) == Len(written) = Len(body)

(* -------------------------------- main -------------------------------- *)

\* log.Fatal, and an error returned up to main's log.Fatal: exit status 1.
\* os.Exit runs no deferred call.
Exit1 == pc' = "failed"

\* main up to the loop: the end of the range.
Startup ==
  /\ pc = "main"
  /\ IF Unspecified(endFlag)
       THEN \E r \in FindMaxIssue(remote) :
              /\ resolverCalls' = resolverCalls + 1
              /\ IF r.err
                   THEN /\ Exit1
                        /\ io' = Io("resolve", "error", 0)
                        /\ UNCHANGED <<endIssueNumber, i>>
                   ELSE /\ pc' = "loop"
                        /\ io' = Io("resolve", "ok", 0)
                        /\ endIssueNumber' = r.max
                        /\ i' = startIssueNumber
       ELSE /\ pc' = "loop"
            /\ io' = Io("resolve", "skipped", 0)
            /\ i' = startIssueNumber
            /\ UNCHANGED <<endIssueNumber, resolverCalls>>
  /\ UNCHANGED <<flags, remote, attachments, k, fs, tmpfiles, resp, dst, openBodies, events, gets, ret>>

\* One iteration of the loop up to the range over the attachments.
FetchIssue ==
  /\ pc = "loop"
  /\ LoopCond(i, endIssueNumber)
  /\ events' = Append(events, Event("fetch", i, 0, NoLink))
  /\ \E net \in {"response", "error"}, a \in Answers(remote[i]) :
       IF net = "error"
         THEN /\ Exit1
              /\ io' = Io("fetch", "error", 0)
              /\ UNCHANGED <<i, attachments, k, openBodies, remote>>
         ELSE /\ io' = Io("fetch", IF a.json THEN "json" ELSE "garbage", a.status)
              /\ remote' = [remote EXCEPT ![i] = a]
              /\ openBodies' = openBodies + 1
              /\ IF SkipStatus(a.status)
                   THEN /\ pc' = "loop"
                        /\ i' = NextIssue(i)
                        /\ UNCHANGED <<attachments, k>>
                   ELSE IF FatalStatus(a.status) \/ ~a.json
                     THEN /\ Exit1
                          /\ UNCHANGED <<i, attachments, k>>
                     ELSE /\ pc' = "attach"
                          /\ attachments' = a.attachments
                          /\ k' = 1
                          /\ UNCHANGED i
  /\ UNCHANGED <<flags, endIssueNumber, fs, tmpfiles, resp, dst, resolverCalls, gets, ret>>

\* The range over the attachments is exhausted: the next iteration.
EndOfAttachments ==
  /\ pc = "attach"
  /\ k > Len(attachments)
  /\ pc' = "loop"
  /\ i' = NextIssue(i)
  /\ UNCHANGED <<flags, remote, endIssueNumber, attachments, k, fs, tmpfiles, resp, dst, openBodies,
                 resolverCalls, events, gets, io, ret>>

\* The loop ends and main returns: the deferred closes run, exit status 0.
Return ==
  /\ pc = "loop"
  /\ ~LoopCond(i, endIssueNumber)
  /\ pc' = "done"
  /\ openBodies' = 0
  /\ UNCHANGED <<flags, remote, endIssueNumber, i, attachments, k, fs, tmpfiles, resp, dst,
                 resolverCalls, events, gets, io, ret>>

(* ----------------------------- downloader ----------------------------- *)

\* What the remote sends with a status other than 200.
ErrorPage == [c \in 1..BodyLen |-> <<<<"error">>, c>>]

\* The temporary file the process holds, and the others.
Written == tmpfiles[Len(tmpfiles)]
Others == SubSeq(tmpfiles, 1, Len(tmpfiles) - 1)

\* downloadAttachment, and downloadFile up to the creation of the temporary file.
DownloadAttachment ==
  /\ pc = "attach"
  /\ k <= Len(attachments)
  /\ LET link == attachments[k]
         path == Replace1(link.path, Prefix, <<>>)
         d == Join(SyncDir, Sprintf(i), path)
     IN /\ events' = Append(events, Event("dl", i, k, link))
        /\ IF ~link.ok \/ Unexpected(link.path, path)
             THEN /\ Exit1
                  /\ ret' = "error"
                  /\ io' = Io("attach", "none", 0)
                  /\ UNCHANGED <<fs, tmpfiles, dst, k>>
             ELSE \E mk \in {"ok", "error"}, tf \in {"ok", "error"} :
                    LET missing == IsNotExist(Stat(fs, Dir(d)))
                        made == IF missing THEN MkdirAll(fs, Dir(d)) ELSE fs
                    IN /\ dst' = d
                       /\ IF missing /\ mk = "error"
                            THEN /\ Exit1
                                 /\ ret' = "fatal"
                                 /\ io' = Io("attach", "mkdir error", 0)
                                 /\ UNCHANGED <<fs, tmpfiles, k>>
                            ELSE IF AlreadyDownloaded(Stat(made, d))
                              THEN /\ pc' = "attach"
                                   /\ k' = k + 1
                                   /\ ret' = "nil"
                                   /\ fs' = made
                                   /\ io' = Io("attach", Stat(made, d), 0)
                                   /\ UNCHANGED <<tmpfiles>>
                              ELSE IF tf = "error"
                                THEN /\ Exit1
                                     /\ ret' = "error"
                                     /\ fs' = made
                                     /\ io' = Io("attach", "tempfile error", 0)
                                     /\ UNCHANGED <<tmpfiles, k>>
                                ELSE /\ pc' = "do"
                                     /\ ret' = "none"
                                     /\ fs' = made
                                     /\ tmpfiles' = Append(tmpfiles, <<>>)
                                     /\ io' = Io("attach", "ENOENT", 0)
                                     /\ UNCHANGED <<k>>
  /\ UNCHANGED <<flags, remote, endIssueNumber, i, attachments, resp, openBodies, resolverCalls, gets>>

\* downloadFile: the request and the check of its status.
DownloadFileDo ==
  /\ pc = "do"
  /\ gets' = Append(gets, dst)
  /\ \E net \in {"response", "error"} :
       /\ IF net = "error"
            THEN /\ Exit1
                 /\ ret' = "fatal"
                 /\ io' = Io("do", "error", 0)
                 /\ UNCHANGED resp
            ELSE \E status \in {StatusOK, StatusNotFound} :
                   /\ io' = Io("do", "response", status)
                   /\ resp' = IF status = StatusOK THEN Body(attachments[k]) ELSE ErrorPage
                   /\ IF BadStatus(status)
                        THEN Exit1 /\ ret' = "error"
                        ELSE pc' = "copy" /\ ret' = "none"
  /\ UNCHANGED <<flags, remote, endIssueNumber, i, attachments, k, fs, tmpfiles, dst, openBodies,
                 resolverCalls, events>>

\* downloadFile: io.Copy(tf, resp.Body), one chunk or the end of the body.
DownloadFileCopy ==
  /\ pc = "copy"
  /\ IF AtEOF(Written, resp)
       THEN /\ pc' = "close"
            /\ io' = Io("copy", "EOF", 0)
            /\ UNCHANGED <<tmpfiles, ret>>
       ELSE \E rd \in {"ok", "error"} :
              /\ IF rd = "error"
                   THEN /\ Exit1
                        /\ ret' = "error"
                        /\ io' = Io("copy", "error", 0)
                        /\ UNCHANGED tmpfiles
                   ELSE /\ pc' = "copy"
                        /\ tmpfiles' = Append(Others, Append(Written, resp[Len(Written) + 1]))
                        /\ io' = Io("copy", "ok", 0)
                        /\ UNCHANGED ret
  /\ UNCHANGED <<flags, remote, endIssueNumber, i, attachments, k, fs, resp, dst, openBodies,
                 resolverCalls, events, gets>>

\* downloadFile: tf.Close()
DownloadFileClose ==
  /\ pc = "close"
  /\ \E cl \in {"ok", "error"} :
       /\ io' = Io("close", cl, 0)
       /\ IF cl = "error"
            THEN Exit1 /\ ret' = "error"
            ELSE pc' = "rename" /\ ret' = "none"
  /\ UNCHANGED <<flags, remote, endIssueNumber, i, attachments, k, fs, tmpfiles, resp, dst, openBodies,
                 resolverCalls, events, gets>>

\* downloadFile: os.Rename(tf.Name(), filepath), and the return to main.
DownloadFileRename ==
  /\ pc = "rename"
  /\ \E rn \in {"ok", "error"} :
       /\ io' = Io("rename", rn, 0)
       /\ IF rn = "error"
            THEN /\ Exit1
                 /\ ret' = "error"
                 /\ UNCHANGED <<fs, tmpfiles, k>>
            ELSE /\ pc' = "attach"
                 /\ ret' = "nil"
                 /\ fs' = Rename(fs, Written, dst)
                 /\ tmpfiles' = Others
                 /\ k' = k + 1
  /\ UNCHANGED <<flags, remote, endIssueNumber, i, attachments, resp, dst, openBodies,
                 resolverCalls, events, gets>>

\* The program is invoked again with the same flags, on the same filesystem
\* and against the same tracker.
Invoke ==
  /\ pc \in {"done", "failed"}
  /\ run < MaxRuns
  /\ run' = run + 1
  /\ prev' = [pc |-> pc, fs |-> fs]
  /\ pc' = "main"
  /\ endIssueNumber' = endFlag
  /\ i' = 0
  /\ attachments' = <<>>
  /\ k' = 1
  /\ resp' = <<>>
  /\ dst' = <<>>
  /\ openBodies' = 0
  /\ resolverCalls' = 0
  /\ events' = <<>>
  /\ gets' = <<>>
  /\ io' = Io("none", "none", 0)
  /\ ret' = "none"
  /\ UNCHANGED <<startIssueNumber, endFlag, remote, fs, tmpfiles>>

Next ==
  \/ Startup
  \/ FetchIssue
  \/ EndOfAttachments
  \/ Return
  \/ DownloadAttachment
  \/ DownloadFileDo
  \/ DownloadFileCopy
  \/ DownloadFileClose
  \/ DownloadFileRename
  \/ Invoke

Spec == Init /\ [][Next]_vars

(* ------------------------------- claims ------------------------------- *)

Files == {p \in DOMAIN fs : fs[p].kind = "file"}
Downloading == pc \in {"do", "copy", "close", "rename"}
Last(seq) == seq[Len(seq)]
Fetches == SelectSeq(events, LAMBDA e : e.t = "fetch")
Calls == SelectSeq(events, LAMBDA e : e.t = "dl")

\* The URL path holds the route prefix somewhere.
HasSegment(upath) ==
  \E j \in 1..Len(upath) : j + Len(Prefix) - 1 <= Len(upath) /\ SubSeq(upath, j, j + Len(Prefix) - 1) = Prefix

\* The step is a call of the downloader, for the link current.
CallStep == pc = "attach" /\ k <= Len(attachments) /\ events' # events

\* Every file holds a complete body, and a failed download left nothing
\* at its destination.
C1_CompleteFiles ==
  /\ \A p \in Files : \E l \in Links : l.ok /\ fs[p].data = Body(l)
  /\ (pc = "failed" /\ io.op \in {"do", "copy", "close", "rename"}) => dst \notin DOMAIN fs

\* A file that appears was renamed into place from the closed temporary
\* file holding the whole body.
C1_OnlyByRename ==
  \A p \in DOMAIN fs' :
    (fs'[p].kind = "file" /\ p \notin DOMAIN fs) =>
      /\ pc = "rename"
      /\ p = dst
      /\ io = Io("close", "ok", 0)
      /\ Written = Body(attachments[k])

\* C1: at every moment every file under the sync root holds the complete
\* body of a status-200 response; a file appears at a path only by the
\* rename, when the whole body is in the closed temporary file; and when
\* a download ends in a bad status, a transport error, a close error or
\* a rename error, nothing is at the destination.
C1_Atomic == [](C1_CompleteFiles) /\ [][C1_OnlyByRename]_vars

\* A transfer broke off with part of the body in the temporary file, and
\* nothing is at the destination.
C1_Witness ==
  /\ pc = "failed"
  /\ io = Io("copy", "error", 0)
  /\ tmpfiles # <<>>
  /\ Len(Written) = 1
  /\ dst \notin DOMAIN fs

\* A call whose destination has an entry is over in one step that changes nothing.
C2_ExistingStep ==
  (CallStep /\ attachments[k].ok /\ HasSegment(attachments[k].path) /\ dst' \in DOMAIN fs) =>
    /\ fs' = fs
    /\ tmpfiles' = tmpfiles
    /\ gets' = gets
    /\ ret' = "nil"
    /\ pc' = "attach"

\* C2: a downloader call whose destination has an entry leaves the
\* filesystem and the temporary files as they are, sends no request and
\* returns nil; a request is under way only for a destination without entry.
C2_ExistingUntouched == [](Downloading => dst \notin DOMAIN fs) /\ [][C2_ExistingStep]_vars

\* The downloader just returned nil for a file that was there before the call.
C2_Witness ==
  /\ pc = "attach"
  /\ ret = "nil"
  /\ io = Io("attach", "ok", 0)
  /\ dst \in Files
  /\ gets = <<>>
  /\ run = 2

\* The filesystem of a completed run stays, and nothing is requested again.
C3_State ==
  /\ prev.pc = "done" => fs = prev.fs
  /\ \A n \in 1..Len(gets) : gets[n] \notin DOMAIN prev.fs
  /\ \A n, m \in 1..Len(gets) : gets[n] = gets[m] => n = m

\* Every entry is still there, unchanged, after the step.
C3_Kept == \A p \in DOMAIN fs : p \in DOMAIN fs' /\ fs'[p] = fs[p]

\* C3: after a run that completed, the next run leaves the filesystem as
\* it found it; no run requests the content of a path the run before left,
\* nor of one path twice; and no step removes or changes an entry.
C3_Idempotent == [](C3_State) /\ [][C3_Kept]_vars

\* The second of two completed runs called the downloader, requested
\* nothing, and the files of the first run are there.
C3_Witness ==
  /\ run = 2
  /\ pc = "done"
  /\ prev.pc = "done"
  /\ Files # {}
  /\ Len(Calls) >= 2
  /\ gets = <<>>

\* The fetch step of an issue answered 404 or 403.
C4_SkipStep ==
  (pc = "loop" /\ events' # events /\ io'.res # "error"
      /\ io'.status \in {StatusNotFound, StatusForbidden}) =>
    /\ fs' = fs
    /\ tmpfiles' = tmpfiles
    /\ gets' = gets
    /\ Len(events') = Len(events) + 1
    /\ pc' = "loop"
    /\ i' = i + 1

\* C4: the fetch of an issue answered 404 or 403 changes no file and no
\* directory, calls no downloader and moves the loop to the next
\* identifier; no downloader call is ever made for such an issue.
C4_NotVisibleSkipped ==
  /\ [](\A n \in 1..Len(events) :
          events[n].t = "dl" => remote[events[n].issue].status \notin {StatusNotFound, StatusForbidden})
  /\ [][C4_SkipStep]_vars

\* An issue answered 403 was fetched and the next identifier was fetched after it.
C4_Witness ==
  \E n \in 1..Len(events) :
    /\ n < Len(events)
    /\ events[n].t = "fetch"
    /\ remote[events[n].issue].status = StatusForbidden
    /\ events[n + 1] = Event("fetch", events[n].issue + 1, 0, NoLink)

\* What the last step received is an error other than a 404/403 answer
\* to an issue fetch.
C5_Error ==
  \/ io.op = "fetch" /\ io.res = "error"
  \/ io.op = "fetch" /\ io.res # "error" /\ io.status >= 400
       /\ io.status \notin {StatusNotFound, StatusForbidden}
  \/ io.op = "fetch" /\ io.res = "garbage" /\ io.status < 400
  \/ io.op = "attach" /\ io.res \in {"mkdir error", "tempfile error"}
  \/ io.op = "attach" /\ (~Last(events).link.ok \/ ~HasSegment(Last(events).link.path))
  \/ io.op = "do" /\ (io.res = "error" \/ io.status # StatusOK)
  \/ io.op \in {"copy", "close", "rename"} /\ io.res = "error"

\* C5: any error other than a 404/403 issue fetch ends the run with exit
\* status 1, and a process that exited does nothing more: the only thing
\* that follows is another invocation.
C5_FirstErrorAborts ==
  /\ [](C5_Error => pc = "failed")
  /\ [][pc = "failed" => (run' = run + 1 /\ fs' = fs /\ pc' = "main")]_vars

\* A run that had downloaded a file was aborted by the status of the next download.
C5_Witness ==
  /\ pc = "failed"
  /\ io = Io("do", "response", StatusNotFound)
  /\ Files # {}
  /\ Len(events) >= 3

\* The call for a URL path without the route prefix.
C6_RefusedStep ==
  (CallStep /\ ~HasSegment(attachments[k].path)) =>
    /\ pc' = "failed"
    /\ ret' = "error"
    /\ fs' = fs
    /\ tmpfiles' = tmpfiles
    /\ gets' = gets

\* C6: a downloader call for a URL whose path lacks the route prefix
\* returns an error and changes neither the filesystem nor the temporary
\* files; no request is ever under way for such a URL.
C6_PrefixChecked ==
  /\ [](Downloading => HasSegment(attachments[k].path))
  /\ [][C6_RefusedStep]_vars

\* The downloader refused a parsable URL without the prefix, after a
\* download of the same run.
C6_Witness ==
  /\ pc = "failed"
  /\ ret = "error"
  /\ events # <<>>
  /\ Last(events).t = "dl"
  /\ Last(events).link = UrlNoPrefix
  /\ Files # {}

\* C7: the fetches of a run are start, start+1, ... without gap or
\* repeat, all of [start, end] when the run completes; the downloader
\* calls of an issue follow its fetch directly, one per attachment in
\* the order of the response.
C7_Order ==
  /\ \A n \in 1..Len(Fetches) : Fetches[n].issue = startIssueNumber + n - 1
  /\ pc = "done" => Len(Fetches) = Max(0, endIssueNumber - startIssueNumber + 1)
  /\ \A n \in 1..Len(events) :
       events[n].t = "dl" =>
         /\ n > 1
         /\ events[n - 1].issue = events[n].issue
         /\ events[n - 1].pos = events[n].pos - 1
         /\ events[n].pos <= Len(remote[events[n].issue].attachments)
         /\ events[n].link = remote[events[n].issue].attachments[events[n].pos]

\* A completed run over two issues, the second attachment of one of them called.
C7_Witness ==
  /\ pc = "done"
  /\ Len(Fetches) >= 2
  /\ \E n \in 1..Len(events) : events[n].t = "dl" /\ events[n].pos = 2

\* Issue n was fetched in this run.
Fetched(n) == \E m \in 1..Len(events) : events[m] = Event("fetch", n, 0, NoLink)

\* C8 as stated: a completed run with the end unspecified has fetched the
\* highest existing issue.
C8_ReachesHighest ==
  (pc = "done" /\ endFlag = 0 /\ HighestValid(remote) > 0) => Fetched(HighestValid(remote))

\* C8 amended: the resolver is called once, before the loop, exactly when
\* the end is unspecified; its bound is the end of the range and is not
\* below the highest existing issue; when it fails the run is aborted with
\* nothing fetched and nothing written; a completed run has fetched the
\* highest existing issue, provided the start is not above it.
C8_RangeResolved ==
  /\ resolverCalls = IF endFlag = 0 /\ pc # "main" THEN 1 ELSE 0
  /\ endFlag # 0 => endIssueNumber = endFlag
  /\ (endFlag = 0 /\ pc \notin {"main"} /\ io # Io("resolve", "error", 0)) =>
       endIssueNumber >= Max(1, HighestValid(remote))
  /\ io = Io("resolve", "error", 0) =>
       pc = "failed" /\ events = <<>> /\ gets = <<>> /\ fs = prev.fs
  /\ (pc = "done" /\ endFlag = 0 /\ HighestValid(remote) >= startIssueNumber) =>
       Fetched(HighestValid(remote))

\* A completed run with the end unspecified that fetched the highest
\* existing issue, which is not the first of the range.
C8_Witness ==
  /\ pc = "done"
  /\ endFlag = 0
  /\ resolverCalls = 1
  /\ HighestValid(remote) > startIssueNumber
  /\ Fetched(HighestValid(remote))

\* C9: when the downloader has returned nil, there is an entry at the
\* destination path.
C9_SuccessMeansFile == ret = "nil" => dst \in DOMAIN fs

\* C10: while the driver loop runs, at most one issue response body is open.
C10_OneBodyOpen == pc \in {"loop", "attach", "do", "copy", "close", "rename"} => openBodies <= 1

====
